---------------------------- MODULE Spec2Model ----------------------------
(***************************************************************************)
(* Model of megatron/model/chatglm3_model.py: the ChatGLM-3 model wrapper  *)
(* (forward, state_dict_for_save_checkpoint, load_state_dict), the output  *)
(* projection and loss stage post_language_model_processing, and the       *)
(* masked loss CrossEntropy.                                               *)
(*                                                                         *)
(* Python values are encoded as follows.                                   *)
(*   - a str is the tuple of its characters, so that Python's substring    *)
(*     test `a in b` is computed on the characters;                        *)
(*   - None is the empty tuple and a present optional value x is <<x>>;    *)
(*   - a checkpoint value is a record [kind, id, items]: a tensor (or any  *)
(*     opaque sub-state) carries its identity in id, a dict carries its    *)
(*     key -> value function in items;                                     *)
(*   - a [b, s] tensor is a tuple of b rows of s entries.                  *)
(***************************************************************************)
EXTENDS Integers, Sequences, FiniteSets, TLC

VARIABLES
    \* ChatGLM3Model.__init__
    pre_process, post_process, untie_embeddings_and_output_weights,
    return_moe_loss, fp16_lm_cross_entropy,
    \* runtime facts: mpu.get_sequence_parallel_world_size() and the dtype of
    \* the logits parallel_lm_logits returns
    sequence_parallel_world_size, logits_dtype,
    \* get_args()
    args_curriculum_seqlen, args_curriculum_learning_legacy, args_seq_length,
    \* checkpointing
    word_embeddings,      \* state held by self.word_embeddings (None if absent)
    lm_saved,             \* dict last returned by language_model.state_dict_for_save_checkpoint
    ckpt,                 \* dict last returned by state_dict_for_save_checkpoint
    ckpt_op,              \* last checkpoint operation
    load_in,              \* dict last given to load_state_dict
    load_strict,          \* its strict flag
    load_result,          \* what that load did
    \* forward
    fwd_call,             \* arguments and runtime facts of the last forward call
    fwd_result,           \* what that call did
    \* CrossEntropy
    ce_call, ce_result

cfg_vars == <<pre_process, post_process, untie_embeddings_and_output_weights,
              return_moe_loss, fp16_lm_cross_entropy,
              sequence_parallel_world_size, logits_dtype,
              args_curriculum_learning_legacy, args_seq_length>>
ckpt_vars == <<word_embeddings, lm_saved, ckpt, ckpt_op, load_in, load_strict, load_result>>
fwd_vars == <<fwd_call, fwd_result>>
ce_vars == <<ce_call, ce_result>>
vars == <<cfg_vars, args_curriculum_seqlen, ckpt_vars, fwd_vars, ce_vars>>

-----------------------------------------------------------------------------
(* Bounds of the model. *)

MaxSeq == 3
BatchSize == 2
MaxWorld == 2
MaxLoss == 2
CeSeq == 2

-----------------------------------------------------------------------------
(* Python values. *)

None == << >>
Some(x) == <<x>>

Min(a, b) == IF a < b THEN a ELSE b
Max(a, b) == IF a > b THEN a ELSE b

\* Python's `pat in key` on two str values.
Contains(key, pat) ==
    \E i \in 0..(Len(key) - Len(pat)) : SubSeq(key, i + 1, i + Len(pat)) = pat

EmptyDict == [k \in {} |-> k]
NoneValue == [kind |-> "none", id |-> 0, items |-> EmptyDict]
Tensor(n) == [kind |-> "tensor", id |-> n, items |-> EmptyDict]
Dict(f) == [kind |-> "dict", id |-> 0, items |-> f]

\* d[k] = v
DictSet(d, k, v) == [x \in (DOMAIN d) \cup {k} |-> IF x = k THEN v ELSE d[x]]
\* the dict d after `del d[k]` / d.pop(k) for every k in ks
DictDel(d, ks) == [x \in (DOMAIN d) \ ks |-> d[x]]

-----------------------------------------------------------------------------
(* Keys. *)

LanguageModelKey ==
    <<"l","a","n","g","u","a","g","e","_","m","o","d","e","l">>

WordEmbeddingsForHeadKey ==
    <<"w","o","r","d","_","e","m","b","e","d","d","i","n","g","s","_","f","o","r","_","h","e","a","d">>

MoeStateDictKey ==
    <<"m","o","e","_","s","t","a","t","e","_","d","i","c","t">>

ExpertMarker ==
    <<"e","x","p","e","r","t">>

GateWeightKey ==
    <<"m","o","e",".","g","a","t","e",".","w","g",".","w","e","i","g","h","t">>

EmbeddingKey ==
    <<"e","m","b","e","d","d","i","n","g">>

EncoderKey ==
    <<"e","n","c","o","d","e","r">>

ExpertKey0 ==
    <<"e","n","c","o","d","e","r",".","e","x","p","e","r","t","s",".","0",".","w">>

ExpertKey1 ==
    <<"e","n","c","o","d","e","r",".","e","x","p","e","r","t","s",".","1",".","w">>

ExpertGateKey ==
    <<"e","x","p","e","r","t","s",".","m","o","e",".","g","a","t","e",".","w","g",".","w","e","i","g","h","t">>

-----------------------------------------------------------------------------
(* The inner language-model stage and the head embedding (collaborators). *)

\* The dicts language_model.state_dict_for_save_checkpoint may return: the
\* regular sub-states, and optionally a moe_state_dict entry (possibly empty)
\* whose keys are expert keys.
LanguageModelStateDicts ==
    LET regular == { [k \in {EncoderKey} |-> Tensor(1)],
                     [k \in {EmbeddingKey, EncoderKey} |->
                          IF k = EmbeddingKey THEN Tensor(2) ELSE Tensor(1)] }
        experts == [k \in {ExpertKey0, ExpertKey1} |->
                          IF k = ExpertKey0 THEN Tensor(10) ELSE Tensor(11)]
        moe == { [k \in ks |-> experts[k]] : ks \in SUBSET {ExpertKey0, ExpertKey1} }
    IN  regular \cup { DictSet(r, MoeStateDictKey, Dict(m)) : r \in regular, m \in moe }

\* self.word_embeddings exists on a stage that post-processes only, with tied weights
\* (MegatronModule.initialize_word_embeddings).
InitialWordEmbeddings(pre, post, untie) ==
    IF post /\ ~pre /\ ~untie THEN Tensor(20) ELSE NoneValue

\* The dicts a caller may give to load_state_dict.
CheckpointDicts ==
    LET lm == { Dict([k \in {EncoderKey} |-> Tensor(1)]),
                Dict([k \in {EncoderKey, MoeStateDictKey} |->
                          IF k = EncoderKey THEN Tensor(1)
                          ELSE Dict([e \in {ExpertKey1} |-> Tensor(12)])]) }
        value == [k \in {WordEmbeddingsForHeadKey, ExpertKey0,
                         ExpertGateKey, GateWeightKey} |->
                      IF k = WordEmbeddingsForHeadKey THEN Tensor(21)
                      ELSE IF k = ExpertKey0 THEN Tensor(13)
                      ELSE IF k = ExpertGateKey THEN Tensor(15)
                      ELSE Tensor(16)]
        flat == { [k \in ks |-> value[k]] : ks \in SUBSET (DOMAIN value) }
    IN  flat \cup { DictSet(f, LanguageModelKey, l) : f \in flat, l \in lm }

-----------------------------------------------------------------------------
(* ChatGLM3Model.state_dict_for_save_checkpoint *)

\* The condition with the tie flag the wrong way round.
HeadEmbeddingStage_untied(pre, post, untie) == post /\ ~pre /\ untie

\* `self.post_process and not self.pre_process and not
\*  self.untie_embeddings_and_output_weights`
HeadEmbeddingStage(pre, post, untie) == post /\ ~pre /\ ~untie

\* The save without the loop that hoists the MoE entries.
state_dict_for_save_checkpoint_nohoist(language_model_state_dict, we, pre, post, untie) ==
    LET inner == DictDel(language_model_state_dict, {MoeStateDictKey})
        with_lm == DictSet(EmptyDict, LanguageModelKey, Dict(inner))
    IN  IF HeadEmbeddingStage(pre, post, untie)
        THEN DictSet(with_lm, WordEmbeddingsForHeadKey, we)
        ELSE with_lm

state_dict_for_save_checkpoint(language_model_state_dict, we, pre, post, untie) ==
    LET has_moe == MoeStateDictKey \in DOMAIN language_model_state_dict
        moe == IF has_moe THEN language_model_state_dict[MoeStateDictKey].items
               ELSE EmptyDict
        \* state_dict_[key] = language_model_state_dict["moe_state_dict"].pop(key)
        hoisted == [key \in DOMAIN moe |-> moe[key]]
        \* del language_model_state_dict["moe_state_dict"]
        inner == DictDel(language_model_state_dict, {MoeStateDictKey})
        with_lm == DictSet(hoisted, LanguageModelKey, Dict(inner))
    IN  IF HeadEmbeddingStage(pre, post, untie)
        THEN DictSet(with_lm, WordEmbeddingsForHeadKey, we)
        ELSE with_lm

-----------------------------------------------------------------------------
(* ChatGLM3Model.load_state_dict *)

\* The test without its gate-weight exclusion.
IsMoeKey_nogate(key) == Contains(key, ExpertMarker)

\* `'expert' in key and 'moe.gate.wg.weight' not in key`
IsMoeKey(key) == Contains(key, ExpertMarker) /\ ~Contains(key, GateWeightKey)

\* The load that hands over the caller's dict without descending into the
\* language-model entry.
load_state_dict_nounwrap(state_dict, pre, post, untie) ==
    IF HeadEmbeddingStage(pre, post, untie) /\ WordEmbeddingsForHeadKey \notin DOMAIN state_dict
    THEN [outcome |-> "KeyError", log |-> << >>, we |-> NoneValue,
          handed |-> NoneValue, state_dict |-> Dict(state_dict)]
    ELSE
    LET head == HeadEmbeddingStage(pre, post, untie)
        moved == { key \in DOMAIN state_dict : IsMoeKey(key) }
        moe_state_dict == [key \in moved |-> state_dict[key]]
        popped == DictDel(state_dict, moved)
        handed == IF Cardinality(moved) > 0
                  THEN DictSet(popped, MoeStateDictKey, Dict(moe_state_dict))
                  ELSE popped
    IN  [outcome |-> "return",
         log |-> (IF head THEN <<"word_embeddings">> ELSE << >>) \o <<"language_model">>,
         we |-> IF head THEN state_dict[WordEmbeddingsForHeadKey] ELSE NoneValue,
         handed |-> Dict(handed),
         state_dict |-> Dict(handed)]

\* The result records the calls made, in order (log), the sub-state given to
\* word_embeddings.load_state_dict (we), the dict given to
\* language_model.load_state_dict (handed), and the caller's dict as the call
\* leaves it (state_dict: the pops and the moe_state_dict insertion act on the
\* caller's objects).
load_state_dict(state_dict, pre, post, untie) ==
    IF HeadEmbeddingStage(pre, post, untie) /\ WordEmbeddingsForHeadKey \notin DOMAIN state_dict
    THEN [outcome |-> "KeyError", log |-> << >>, we |-> NoneValue,
          handed |-> NoneValue, state_dict |-> Dict(state_dict)]
    ELSE
    LET head == HeadEmbeddingStage(pre, post, untie)
        moved == { key \in DOMAIN state_dict : IsMoeKey(key) }
        moe_state_dict == [key \in moved |-> state_dict[key]]
        popped == DictDel(state_dict, moved)
        unwrap == LanguageModelKey \in DOMAIN popped
        base == IF unwrap THEN popped[LanguageModelKey].items ELSE popped
        handed == IF Cardinality(moved) > 0
                  THEN DictSet(base, MoeStateDictKey, Dict(moe_state_dict))
                  ELSE base
    IN  [outcome |-> "return",
         log |-> (IF head THEN <<"word_embeddings">> ELSE << >>) \o <<"language_model">>,
         we |-> IF head THEN state_dict[WordEmbeddingsForHeadKey] ELSE NoneValue,
         handed |-> Dict(handed),
         state_dict |-> IF unwrap THEN Dict(DictSet(popped, LanguageModelKey, Dict(handed)))
                        ELSE Dict(handed)]

NoLoad == [outcome |-> "none", log |-> << >>, we |-> NoneValue,
           handed |-> NoneValue, state_dict |-> NoneValue]

Save ==
    /\ \E d \in LanguageModelStateDicts :
          /\ lm_saved' = Dict(d)
          /\ ckpt' = Dict(state_dict_for_save_checkpoint(d, word_embeddings, pre_process,
                              post_process, untie_embeddings_and_output_weights))
    /\ ckpt_op' = "save"
    /\ UNCHANGED <<cfg_vars, args_curriculum_seqlen, word_embeddings, load_in,
                   load_strict, load_result, fwd_vars, ce_vars>>

Load(state_dict, strict, op) ==
    LET r == load_state_dict(state_dict, pre_process, post_process,
                             untie_embeddings_and_output_weights)
    IN  /\ load_in' = Dict(state_dict)
        /\ load_strict' = strict
        /\ load_result' = r
        /\ word_embeddings' =
              IF r.outcome = "return"
                 /\ HeadEmbeddingStage(pre_process, post_process,
                                       untie_embeddings_and_output_weights)
              THEN r.we ELSE word_embeddings
        /\ ckpt_op' = op

\* load_state_dict on the dict the last save returned
LoadSaved ==
    /\ ckpt # NoneValue
    /\ \E strict \in BOOLEAN : Load(ckpt.items, strict, "load_saved")
    /\ ckpt' = load_result'.state_dict
    /\ UNCHANGED <<cfg_vars, args_curriculum_seqlen, lm_saved, fwd_vars, ce_vars>>

\* load_state_dict on a dict from elsewhere
LoadGiven ==
    /\ \E state_dict \in CheckpointDicts, strict \in BOOLEAN :
          Load(state_dict, strict, "load_given")
    /\ UNCHANGED <<cfg_vars, args_curriculum_seqlen, lm_saved, ckpt, fwd_vars, ce_vars>>

-----------------------------------------------------------------------------
(* Tensors. *)

\* x[:n]
Slice(x, n) ==
    IF n >= 0 THEN SubSeq(x, 1, Min(n, Len(x)))
    ELSE SubSeq(x, 1, Max(Len(x) + n, 0))

\* t[:, :n] of a [b, s] tensor
SliceColumns(t, n) == [i \in 1..Len(t) |-> Slice(t[i], n)]

\* m[:, :, :n, :n] of a [1, 1, s, s] tensor
SliceMask(m, n) ==
    [i \in 1..Len(m) |-> [j \in 1..Len(m[i]) |-> SliceColumns(Slice(m[i][j], n), n)]]

\* t.transpose(0, 1) of a two-dimensional tensor with at least one row
Transpose(t) == [j \in 1..Len(t[1]) |-> [i \in 1..Len(t) |-> t[i][j]]]

\* t.view(-1) of a two-dimensional tensor with at least one row
Flatten(t) ==
    [k \in 1..(Len(t) * Len(t[1])) |->
        t[((k - 1) \div Len(t[1])) + 1][((k - 1) % Len(t[1])) + 1]]

RECURSIVE Sum(_)
Sum(x) == IF Len(x) = 0 THEN 0 ELSE x[1] + Sum(Tail(x))

\* The tensors of a batch of sequence length s: entries tell their position.
InputIds(s) == [i \in 1..BatchSize |-> [j \in 1..s |-> 100 * i + j]]
PositionIds(s) == [i \in 1..BatchSize |-> [j \in 1..s |-> j - 1]]
Labels(s) == [i \in 1..BatchSize |-> [j \in 1..s |-> 100 * i + j + 1]]
AttentionMask(s) == << << [r \in 1..s |-> [c \in 1..s |-> c > r]] >> >>

-----------------------------------------------------------------------------
(* post_language_model_processing *)

\* The selection with the comparison off by one.
SelectCrossEntropy_ge(world_size) ==
    IF world_size >= 1 THEN "vocab_sequence_parallel_cross_entropy"
    ELSE "vocab_parallel_cross_entropy"

\* `sequence_parallel.vocab_sequence_parallel_cross_entropy
\*  if mpu.get_sequence_parallel_world_size() > 1
\*  else tensor_parallel.vocab_parallel_cross_entropy`
SelectCrossEntropy(world_size) ==
    IF world_size > 1 THEN "vocab_sequence_parallel_cross_entropy"
    ELSE "vocab_parallel_cross_entropy"

\* The check left out.
PrecisionCheck_off(fp16, dtype) == TRUE

\* `assert output.dtype == torch.half`, reached when fp16_lm_cross_entropy
PrecisionCheck(fp16, dtype) == fp16 => dtype = "half"

\* A call cross_entropy(logits, labels) and the per-token loss it returns, of
\* the shape of its labels: each entry is the label it is the loss of.
CrossEntropyCall(algorithm, dtype, labels) ==
    [algorithm |-> algorithm, dtype |-> dtype, labels |-> labels]

\* world_size and dtype are the runtime facts the code reads: the
\* sequence-parallel world size and the dtype of parallel_lm_logits' result.
post_language_model_processing(lm_output, labels, logit_weights, world_size, dtype, fp16) ==
    LET output == [kind |-> "logits", layout |-> "sbh", dtype |-> dtype,
                   weight |-> logit_weights, tokens |-> None]
    IN  IF labels = None
        THEN [outcome |-> "return", calls |-> << >>,
              value |-> [output EXCEPT !.layout = "bsh"]]
        ELSE
        LET labels_sb == Transpose(labels[1])
            cross_entropy == SelectCrossEntropy(world_size)
            call == CrossEntropyCall(cross_entropy,
                                     IF fp16 THEN dtype ELSE "float", labels_sb)
        IN  IF ~PrecisionCheck(fp16, dtype)
            THEN [outcome |-> "AssertionError", calls |-> << >>, value |-> None]
            ELSE [outcome |-> "return", calls |-> <<call>>,
                  value |-> [kind |-> "loss", layout |-> "bs", dtype |-> call.dtype,
                             weight |-> logit_weights,
                             tokens |-> Some(Transpose(call.labels))]]

-----------------------------------------------------------------------------
(* ChatGLM3Model.forward *)

\* The reset done whether or not legacy curriculum mode is active.
CurriculumSeqlenAfter_reset(current, curriculum_seqlen, legacy, seq_length) ==
    IF curriculum_seqlen # None THEN curriculum_seqlen
    ELSE Some(seq_length)

\* args.curriculum_seqlen after the call
CurriculumSeqlenAfter(current, curriculum_seqlen, legacy, seq_length) ==
    IF curriculum_seqlen # None THEN curriculum_seqlen
    ELSE IF legacy THEN Some(seq_length)
    ELSE current

\* The truncation that leaves the labels at full length.
Truncate_labels(input_ids, position_ids, attention_mask, labels, curriculum_seqlen) ==
    IF curriculum_seqlen # None /\ curriculum_seqlen[1] < Len(input_ids[1])
    THEN [input_ids |-> SliceColumns(input_ids, curriculum_seqlen[1]),
          position_ids |-> SliceColumns(position_ids, curriculum_seqlen[1]),
          labels |-> labels,
          attention_mask |-> SliceMask(attention_mask, curriculum_seqlen[1])]
    ELSE [input_ids |-> input_ids, position_ids |-> position_ids,
          labels |-> labels, attention_mask |-> attention_mask]

\* input_ids, position_ids, attention_mask and labels after the curriculum branch
Truncate(input_ids, position_ids, attention_mask, labels, curriculum_seqlen) ==
    IF curriculum_seqlen # None /\ curriculum_seqlen[1] < Len(input_ids[1])
    THEN [input_ids |-> SliceColumns(input_ids, curriculum_seqlen[1]),
          position_ids |-> SliceColumns(position_ids, curriculum_seqlen[1]),
          labels |-> IF labels # None
                     THEN Some(SliceColumns(labels[1], curriculum_seqlen[1]))
                     ELSE labels,
          attention_mask |-> SliceMask(attention_mask, curriculum_seqlen[1])]
    ELSE [input_ids |-> input_ids, position_ids |-> position_ids,
          labels |-> labels, attention_mask |-> attention_mask]

\* `self.language_model.output_layer.weight if
\*  self.untie_embeddings_and_output_weights else
\*  self.shared_embedding_or_output_weight()`
LogitWeights(untie) ==
    IF untie THEN "output_layer.weight" ELSE "shared_embedding_or_output_weight"

\* `return lm_output, moe_losses if self.return_moe_loss else lm_output`
forward_return(lm_output, moe_losses, rml) ==
    <<lm_output, IF rml THEN moe_losses ELSE lm_output>>

\* What the inner stage returns: a hidden state [s b h] and the MoE losses.
LanguageModelOutput ==
    [kind |-> "hidden", layout |-> "sbh", dtype |-> "hidden",
     weight |-> "none", tokens |-> None]
MoeLosses ==
    [kind |-> "moe_losses", layout |-> "list", dtype |-> "float",
     weight |-> "none", tokens |-> None]

NoPost == [outcome |-> "skipped", calls |-> << >>, value |-> None]

forward(call, post, untie, rml, fp16, world_size, dtype) ==
    LET t == Truncate(call.input_ids, call.position_ids, call.attention_mask,
                      call.labels, call.curriculum_seqlen)
        p == IF post
             THEN post_language_model_processing(LanguageModelOutput, t.labels,
                      LogitWeights(untie), world_size, dtype, fp16)
             ELSE NoPost
        lm_output == IF post THEN p.value ELSE LanguageModelOutput
    IN  [language_model_in |-> [input_ids |-> t.input_ids,
                                position_ids |-> t.position_ids,
                                attention_mask |-> t.attention_mask],
         labels |-> t.labels,
         post |-> p,
         outcome |-> IF p.outcome = "AssertionError" THEN "AssertionError" ELSE "return",
         ret |-> IF p.outcome = "AssertionError" THEN None
                 ELSE forward_return(lm_output, MoeLosses, rml)]

ForwardCalls ==
    { [input_ids |-> InputIds(s), position_ids |-> PositionIds(s),
       attention_mask |-> AttentionMask(s),
       labels |-> IF l THEN Some(Labels(s)) ELSE None,
       curriculum_seqlen |-> c] :
         s \in 1..MaxSeq, l \in BOOLEAN,
         c \in {None} \cup { Some(n) : n \in 1..(MaxSeq + 1) } }

NoCall == [input_ids |-> None, position_ids |-> None, attention_mask |-> None,
           labels |-> None, curriculum_seqlen |-> None]
NoForward == [language_model_in |-> [input_ids |-> None, position_ids |-> None,
                                     attention_mask |-> None],
              labels |-> None, post |-> NoPost, outcome |-> "none", ret |-> None]

Forward ==
    /\ \E call \in ForwardCalls :
          /\ fwd_call' = call
          /\ args_curriculum_seqlen' =
                 CurriculumSeqlenAfter(args_curriculum_seqlen, call.curriculum_seqlen,
                                       args_curriculum_learning_legacy, args_seq_length)
          /\ fwd_result' = forward(call, post_process, untie_embeddings_and_output_weights,
                                   return_moe_loss, fp16_lm_cross_entropy,
                                   sequence_parallel_world_size, logits_dtype)
    /\ UNCHANGED <<cfg_vars, ckpt_vars, ce_vars>>

-----------------------------------------------------------------------------
(* CrossEntropy *)

\* losses_sb is what tensor_parallel.vocab_parallel_cross_entropy returns for
\* the transposed labels: one loss per token, [s, b].  The quotient of two
\* float tensors is kept as numerator and denominator; 0.0 / 0.0 is nan.
CrossEntropy(losses_sb, loss_mask) ==
    LET losses == Flatten(Transpose(losses_sb))
        mask == Flatten(loss_mask)
        num == Sum([k \in 1..Len(mask) |-> losses[k] * mask[k]])
        den == Sum(mask)
    IN  IF den # 0 THEN [outcome |-> "return", kind |-> "finite", num |-> num, den |-> den]
        ELSE IF num = 0 THEN [outcome |-> "return", kind |-> "nan", num |-> num, den |-> den]
        ELSE [outcome |-> "return", kind |-> "inf", num |-> num, den |-> den]

NoLoss == [outcome |-> "none", kind |-> "none", num |-> 0, den |-> 0]

Loss ==
    /\ \E losses_sb \in [1..CeSeq -> [1..BatchSize -> 1..MaxLoss]],
          loss_mask \in [1..BatchSize -> [1..CeSeq -> {0, 1}]] :
          /\ ce_call' = [losses |-> losses_sb, loss_mask |-> loss_mask]
          /\ ce_result' = CrossEntropy(losses_sb, loss_mask)
    /\ UNCHANGED <<cfg_vars, args_curriculum_seqlen, ckpt_vars, fwd_vars>>

-----------------------------------------------------------------------------
(* Construction and the specifications. *)

Construct(pre, post, untie, rml, fp16, legacy, world_size, dtype) ==
    /\ pre_process = pre
    /\ post_process = post
    /\ untie_embeddings_and_output_weights = untie
    /\ return_moe_loss = rml
    /\ fp16_lm_cross_entropy = fp16
    /\ sequence_parallel_world_size = world_size
    /\ logits_dtype = dtype
    /\ args_curriculum_learning_legacy = legacy
    /\ args_seq_length = MaxSeq
    /\ args_curriculum_seqlen = None
    /\ word_embeddings = InitialWordEmbeddings(pre, post, untie)
    /\ lm_saved = NoneValue
    /\ ckpt = NoneValue
    /\ ckpt_op = "init"
    /\ load_in = NoneValue
    /\ load_strict = TRUE
    /\ load_result = NoLoad
    /\ fwd_call = NoCall
    /\ fwd_result = NoForward
    /\ ce_call = [losses |-> None, loss_mask |-> None]
    /\ ce_result = NoLoss

Init ==
    \E pre, post, untie, rml, fp16, legacy \in BOOLEAN :
        \E world_size \in 1..MaxWorld, dtype \in {"half", "float"} :
            Construct(pre, post, untie, rml, fp16, legacy, world_size, dtype)

\* The checkpoint operations read pre_process, post_process and the tie flag only.
InitCheckpoint ==
    \E pre, post, untie \in BOOLEAN :
        Construct(pre, post, untie, TRUE, FALSE, FALSE, 1, "float")

\* forward does not read pre_process.
InitForward ==
    \E post, untie, rml, fp16, legacy \in BOOLEAN :
        \E world_size \in 1..MaxWorld, dtype \in {"half", "float"} :
            Construct(TRUE, post, untie, rml, fp16, legacy, world_size, dtype)

\* CrossEntropy is a function of its arguments.
InitLoss == Construct(TRUE, TRUE, FALSE, TRUE, FALSE, FALSE, 1, "float")

Next == Save \/ LoadSaved \/ LoadGiven \/ Forward \/ Loss

Spec == Init /\ [][Next]_vars
SpecCheckpoint == InitCheckpoint /\ [][Save \/ LoadSaved]_vars
SpecLoad == InitCheckpoint /\ [][LoadGiven]_vars
SpecForward == InitForward /\ [][Forward]_vars
SpecLoss == InitLoss /\ [][Loss]_vars

-----------------------------------------------------------------------------
(* Checkpoint properties. *)

HeadOnlyTied == post_process /\ ~pre_process /\ ~untie_embeddings_and_output_weights
HeadOnlyUntied == post_process /\ ~pre_process /\ untie_embeddings_and_output_weights

HasMoe(d) == MoeStateDictKey \in DOMAIN d.items
MoeOf(d) == d.items[MoeStateDictKey].items

\* D without its moe_state_dict entry when that entry holds no key
DropEmptyMoe(d) ==
    IF HasMoe(d) /\ DOMAIN MoeOf(d) = {}
    THEN Dict([k \in (DOMAIN d.items) \ {MoeStateDictKey} |-> d.items[k]])
    ELSE d

\* C1 as stated: a load_state_dict of the dict state_dict_for_save_checkpoint
\* just returned hands the inner stage a dict equal to the dict D the inner
\* stage returned for the save.
C1_RoundTripEqual ==
    [][(ckpt_op = "save" /\ ckpt_op' = "load_saved")
          => (load_result'.outcome = "return" /\ load_result'.handed = lm_saved)]_vars

\* C1 amended: the dict handed to the inner stage equals D, except that a
\* moe_state_dict entry of D that holds no key is absent from it.
C1_RoundTrip ==
    [][(ckpt_op = "save" /\ ckpt_op' = "load_saved")
          => (load_result'.outcome = "return"
              /\ load_result'.handed = DropEmptyMoe(lm_saved))]_vars

\* A round trip of a D with two expert entries, on a stage with the head key.
C1_Witness ==
    /\ ckpt_op = "load_saved"
    /\ HeadOnlyTied
    /\ HasMoe(lm_saved)
    /\ DOMAIN MoeOf(lm_saved) = {ExpertKey0, ExpertKey1}
    /\ DOMAIN load_in.items =
           {ExpertKey0, ExpertKey1, LanguageModelKey, WordEmbeddingsForHeadKey}
    /\ load_result.handed = lm_saved

\* C2 as stated: on a post-processing-only stage with untied weights the save
\* stores the head embedding state under word_embeddings_for_head and the load
\* reads it from there first.
C2_HeadKeyWhenUntied ==
    HeadOnlyUntied =>
        /\ ckpt_op = "save" =>
              /\ WordEmbeddingsForHeadKey \in DOMAIN ckpt.items
              /\ ckpt.items[WordEmbeddingsForHeadKey] = word_embeddings
        /\ ckpt_op = "load_saved" =>
              /\ load_result.log = <<"word_embeddings", "language_model">>
              /\ load_result.we = load_in.items[WordEmbeddingsForHeadKey]

\* C2 amended: the same on a post-processing-only stage with tied weights.
C2_HeadKeyWhenTied ==
    HeadOnlyTied =>
        /\ ckpt_op = "save" =>
              /\ WordEmbeddingsForHeadKey \in DOMAIN ckpt.items
              /\ ckpt.items[WordEmbeddingsForHeadKey] = word_embeddings
        /\ ckpt_op = "load_saved" =>
              /\ load_result.log = <<"word_embeddings", "language_model">>
              /\ load_result.we = load_in.items[WordEmbeddingsForHeadKey]

\* A tied post-processing-only stage has saved and loaded its head embedding.
C2_Witness ==
    /\ HeadOnlyTied
    /\ ckpt_op = "load_saved"
    /\ load_result.log = <<"word_embeddings", "language_model">>
    /\ load_result.we = Tensor(20)

\* The dict load_state_dict starts from: the language-model entry if present,
\* else the caller's dict.
LoadBase(d, moved) ==
    IF LanguageModelKey \in DOMAIN d.items THEN d.items[LanguageModelKey].items
    ELSE [k \in (DOMAIN d.items) \ moved |-> d.items[k]]

\* What C3 says of a load that moves the keys `moved`.
MovesExactly(moved) ==
    /\ IF moved # {}
       THEN /\ HasMoe(load_result.handed)
            /\ DOMAIN MoeOf(load_result.handed) = moved
            /\ \A k \in moved : MoeOf(load_result.handed)[k] = load_in.items[k]
            /\ \A k \in moved : k \notin DOMAIN load_result.state_dict.items
            /\ \A k \in (DOMAIN load_result.handed.items) \ {MoeStateDictKey} :
                   /\ k \in DOMAIN LoadBase(load_in, moved)
                   /\ load_result.handed.items[k] = LoadBase(load_in, moved)[k]
       ELSE load_result.handed.items = LoadBase(load_in, moved)

C4_SaveHoistsMoe ==
    (ckpt_op = "save" /\ HasMoe(lm_saved)) =>
        /\ \A k \in DOMAIN MoeOf(lm_saved) :
              /\ k \in DOMAIN ckpt.items
              /\ ckpt.items[k] = MoeOf(lm_saved)[k]
        /\ LanguageModelKey \in DOMAIN ckpt.items
        /\ ~HasMoe(ckpt.items[LanguageModelKey])
        /\ ckpt.items[LanguageModelKey].items =
              [k \in (DOMAIN lm_saved.items) \ {MoeStateDictKey} |-> lm_saved.items[k]]

\* A save of a D with the embedding, the encoder and two expert entries.
C4_Witness ==
    /\ ckpt_op = "save"
    /\ HasMoe(lm_saved)
    /\ DOMAIN MoeOf(lm_saved) = {ExpertKey0, ExpertKey1}
    /\ EmbeddingKey \in DOMAIN lm_saved.items
    /\ {ExpertKey0, ExpertKey1} \subseteq DOMAIN ckpt.items

-----------------------------------------------------------------------------
(* forward and loss properties. *)

ForwardCalled == fwd_result.outcome # "none"
PostCalled == ForwardCalled /\ post_process
CrossEntropyFor(world_size) ==
    IF world_size > 1 THEN "vocab_sequence_parallel_cross_entropy"
    ELSE "vocab_parallel_cross_entropy"

\* C5: forward returns (output, moe_losses) when return_moe_loss is true and
\* the one-element (output, ) when it is false.
C5_ReturnShape ==
    fwd_result.outcome = "return" =>
        IF return_moe_loss
        THEN /\ Len(fwd_result.ret) = 2
             /\ fwd_result.ret[2] = MoeLosses
             /\ fwd_result.ret[1] =
                   (IF post_process THEN fwd_result.post.value ELSE LanguageModelOutput)
        ELSE Len(fwd_result.ret) = 1

\* C6 as stated: with labels, post_language_model_processing makes exactly one
\* cross-entropy call, to the algorithm the sequence-parallel world size
\* selects; without labels it makes none.
C6_OneCrossEntropyCall ==
    PostCalled =>
        IF fwd_result.labels # None
        THEN /\ Len(fwd_result.post.calls) = 1
             /\ fwd_result.post.calls[1].algorithm =
                   CrossEntropyFor(sequence_parallel_world_size)
        ELSE fwd_result.post.calls = << >>

\* C6 amended: the same when the precision assertion passes; when it fails no
\* cross-entropy call is made.
C6_OneCrossEntropyCallUnlessAssert ==
    PostCalled =>
        IF fwd_result.labels # None /\ fwd_result.post.outcome # "AssertionError"
        THEN /\ Len(fwd_result.post.calls) = 1
             /\ fwd_result.post.calls[1].algorithm =
                   CrossEntropyFor(sequence_parallel_world_size)
        ELSE fwd_result.post.calls = << >>

\* A loss computed under sequence parallelism.
C6_Witness ==
    /\ PostCalled
    /\ fwd_result.labels # None
    /\ sequence_parallel_world_size > 1
    /\ Len(fwd_result.post.calls) = 1
    /\ fwd_result.post.calls[1].algorithm = "vocab_sequence_parallel_cross_entropy"

\* C7: with fp16_lm_cross_entropy, labels and logits that are not half
\* precision, post_language_model_processing raises the assertion, calls no
\* cross entropy and returns nothing.
C7_PrecisionMismatchAsserts ==
    (PostCalled /\ fp16_lm_cross_entropy /\ fwd_result.labels # None
        /\ logits_dtype # "half") =>
        /\ fwd_result.post.outcome = "AssertionError"
        /\ fwd_result.post.calls = << >>
        /\ fwd_result.post.value = None
        /\ fwd_result.outcome = "AssertionError"
        /\ fwd_result.ret = None

\* The assertion has fired.
C7_Witness ==
    /\ PostCalled
    /\ fp16_lm_cross_entropy
    /\ fwd_result.labels # None
    /\ logits_dtype = "float"
    /\ fwd_result.post.outcome = "AssertionError"

\* The first n entries of every row of a [b, s] tensor
FirstColumns(t, n) == [i \in 1..Len(t) |-> [j \in 1..n |-> t[i][j]]]

\* C8: with curriculum_seqlen below the sequence length of input_ids, the
\* inner stage gets input_ids and position_ids cut to the first
\* curriculum_seqlen positions and the mask cut on both trailing axes, and the
\* loss stage gets the labels cut the same way; otherwise all pass unchanged.
C8_CurriculumTruncation ==
    ForwardCalled =>
        LET c == fwd_call.curriculum_seqlen
            in == fwd_result.language_model_in
        IN  IF c # None /\ c[1] < Len(fwd_call.input_ids[1])
            THEN /\ in.input_ids = FirstColumns(fwd_call.input_ids, c[1])
                 /\ in.position_ids = FirstColumns(fwd_call.position_ids, c[1])
                 /\ in.attention_mask =
                       << << [r \in 1..c[1] |-> [q \in 1..c[1] |->
                                 fwd_call.attention_mask[1][1][r][q]]] >> >>
                 /\ fwd_call.labels # None =>
                       /\ fwd_result.labels = Some(FirstColumns(fwd_call.labels[1], c[1]))
                       /\ \A k \in 1..Len(fwd_result.post.calls) :
                             fwd_result.post.calls[k].labels =
                                 Transpose(FirstColumns(fwd_call.labels[1], c[1]))
                 /\ fwd_call.labels = None => fwd_result.labels = None
            ELSE /\ in.input_ids = fwd_call.input_ids
                 /\ in.position_ids = fwd_call.position_ids
                 /\ in.attention_mask = fwd_call.attention_mask
                 /\ fwd_result.labels = fwd_call.labels
                 /\ \A k \in 1..Len(fwd_result.post.calls) :
                       fwd_result.post.calls[k].labels = Transpose(fwd_call.labels[1])

\* A call of full length with labels, truncated to one position less, whose
\* loss was computed.
C8_Witness ==
    /\ ForwardCalled
    /\ Len(fwd_call.input_ids[1]) = MaxSeq
    /\ fwd_call.curriculum_seqlen = Some(MaxSeq - 1)
    /\ fwd_call.labels # None
    /\ Len(fwd_result.language_model_in.input_ids[1]) = MaxSeq - 1
    /\ Len(fwd_result.post.calls) = 1

\* C9: CrossEntropy with an all-zero loss mask signals DegenerateMask; with a
\* mask that has a non-zero entry it returns the sum of the masked losses
\* divided by the sum of the mask.
C9_DegenerateMask ==
    ce_result.outcome # "none" =>
        LET mask == Flatten(ce_call.loss_mask)
            losses == Flatten(Transpose(ce_call.losses))
        IN  IF \A k \in 1..Len(mask) : mask[k] = 0
            THEN ce_result.outcome = "DegenerateMask"
            ELSE /\ ce_result.outcome = "return"
                 /\ ce_result.kind = "finite"
                 /\ ce_result.num = Sum([k \in 1..Len(mask) |-> losses[k] * mask[k]])
                 /\ ce_result.den = Sum(mask)

\* C10: every forward call leaves args.curriculum_seqlen at the value it
\* supplies, at seq_length if it supplies none in legacy mode, and unchanged
\* if it supplies none outside legacy mode.
C10_CurriculumSetting ==
    [][fwd_result'.outcome # "none" =>
          args_curriculum_seqlen' =
              IF fwd_call'.curriculum_seqlen # None THEN fwd_call'.curriculum_seqlen
              ELSE IF args_curriculum_learning_legacy THEN Some(args_seq_length)
              ELSE args_curriculum_seqlen]_vars

\* Outside legacy mode, a call without curriculum_seqlen has left in place the
\* value of an earlier call that supplied one above the sequence length.
C10_Witness ==
    /\ ForwardCalled
    /\ ~args_curriculum_learning_legacy
    /\ fwd_call.curriculum_seqlen = None
    /\ args_curriculum_seqlen = Some(MaxSeq + 1)

=============================================================================
